---- MODULE Spec2Model ----
(***************************************************************************)
(* State-machine model of the image cropper (by225/image-cropper).         *)
(*                                                                         *)
(* The component ImageCropperApp is modelled handler by handler.  React     *)
(* state is one variable per useState/useRef; a handler is one action, and *)
(* every asynchronous continuation (timer callback, image load, toBlob     *)
(* callback) is an action of its own that works on the values its closure  *)
(* captured when it was created.                                           *)
(*                                                                         *)
(* The repository holds the component twice: src/app/ImageCropperApp.tsx   *)
(* (with app/CropModal.tsx, app/constants.ts) and the single-file          *)
(* src/App.tsx.  The two agree on processFiles, openCropModal, handleCrop, *)
(* handleCancel and handleAspectChange, and differ in updateCropSettings,  *)
(* handleCropEvent, handleCropperReady, handleNumericChange and the effect *)
(* on isOpen.  The variable `build` says which of the two is running.      *)
(*                                                                         *)
(* Three specifications share the variables:                               *)
(*   Spec      file batches, validation, deletion (starts with no images)  *)
(*   SpecCrop  the crop modal of app/ImageCropperApp.tsx, on two images    *)
(*   SpecMono  the crop modal of App.tsx, on two images                    *)
(*                                                                         *)
(* The crop widget (cropperjs) is not part of the repository.  It is taken *)
(* to hold the rectangle it was last given (setData) or dragged to, to     *)
(* report it in a crop event, and to report zeros once destroyed.          *)
(*                                                                         *)
(* Numbers are exact rationals <<n, d>> (d > 0, lowest terms), so that     *)
(* JavaScript's /, Math.round, Math.min and Math.max are computed and not  *)
(* approximated.  The image sizes used are powers of two, for which the    *)
(* quotients are exact in binary floating point as well.                   *)
(***************************************************************************)
EXTENDS Integers, Sequences, FiniteSets, TLC

VARIABLES
    images,              \* useState<ImageData[]>
    isProcessing,        \* useState(false)
    processingTimeout,   \* processingTimeoutRef: the pending debounce timer and its closure
    batch,               \* the running body of the debounce callback (between awaits)
    fadeOut,             \* a pending setTimeout(() => setIsProcessing(false), FADE_OUT)
    pendingToasts,       \* pending setTimeout(() => messages.forEach(toast), TOAST_DELAY)
    toasts,              \* the toasts on screen
    now,                 \* Date.now()
    deletions,           \* number of handleDelete calls so far
    objectUrls,          \* the object URLs created and not revoked (the browser's URL store)
    objectUrlsToCleanup, \* objectUrlsToCleanup.current
    urlCount,            \* number of URL.createObjectURL calls so far: the next URL is new
    late,                \* validateImage promises whose timeout fired, and their images
    dropEvent,           \* a drop event between the page's onDrop and the window listener
    mounted,             \* the component is mounted
    currentImage,        \* useState<ImageData | null>
    activeCropSettings,  \* useState<CropSettings>
    globalCropSettings,  \* useState<CropSettings | null>
    initialCropSettings, \* useState<CropSettings | null>
    isPerImageCrop,      \* useState(true)
    originalDimensions,  \* useState<{width, height} | null>
    selectedAspectRatio, \* useState('free')
    saveOnCancel,        \* useState(false)
    isClosing,           \* useState(false)
    isOpen,              \* useDisclosure().isOpen
    cropper,             \* cropperRef.current?.cropper: the widget instance and its data
    imgLoad,             \* the window.Image being loaded by openCropModal, and its closure
    cropJob,             \* a handleCrop call waiting for canvas.toBlob, and its closure
    build,               \* "modular" (app/ImageCropperApp.tsx) or "monolith" (App.tsx)
    gestures,            \* number of gestures made in the crop UI so far
    lastUsed,            \* history: rectangle last dragged, edited or cropped
    lastKept             \* history: rectangle the global memory should hold

urlVars == <<objectUrls, objectUrlsToCleanup, urlCount, late, dropEvent, mounted>>
uploadVars == <<images, isProcessing, processingTimeout, batch, fadeOut,
                pendingToasts, toasts, now, deletions, urlVars>>
modalVars == <<currentImage, activeCropSettings, globalCropSettings,
               initialCropSettings, isPerImageCrop, originalDimensions,
               selectedAspectRatio, saveOnCancel, isClosing, isOpen, cropper,
               imgLoad, cropJob, build, lastUsed, lastKept>>
cropVars == <<modalVars, gestures>>
vars == <<uploadVars, cropVars>>

(***************************************************************************)
(* Bounds of the model.                                                    *)
(***************************************************************************)
MaxClock == 3       \* Date.now() takes the values 0..MaxClock
MaxDeletions == 1   \* handleDelete is called at most this often
\* the user opens the modal, drags the crop box, edits a field, selects an aspect
\* ratio or (with the modal in play) deletes an image at most this often in all
MaxGestures == 3

(***************************************************************************)
(* Program constants.                                                      *)
(***************************************************************************)
MAX_IMAGES == 10                    \* the literal 10 of processFiles
MAX_FILE_SIZE == 10 * 1024 * 1024
MIN_DIMENSION == 16                 \* validateImage
MAX_DIMENSION == 16384              \* validateImage
CROP_SIZE_MIN == 10                 \* src/App.tsx CROP_SIZE.MIN
CROP_SIZE_MAX == 10000              \* src/App.tsx CROP_SIZE.MAX

\* An optional value (null, undefined or a value): << >> or <<v>>
None == << >>
Some(v) == <<v>>
Get(o) == o[1]
NoNum == 0 - 1                      \* an undefined numeric parameter

Max(a, b) == IF a >= b THEN a ELSE b
Min(a, b) == IF a <= b THEN a ELSE b

(***************************************************************************)
(* Rational arithmetic: JavaScript numbers.  <<1, 0>> and <<-1, 0>> are    *)
(* +-Infinity and <<0, 0>> is NaN.                                         *)
(***************************************************************************)
Abs(n) == IF n < 0 THEN 0 - n ELSE n

RECURSIVE GCD(_, _)
GCD(a, b) == IF b = 0 THEN a ELSE GCD(b, a % b)

Sign(n) == IF n > 0 THEN 1 ELSE IF n < 0 THEN 0 - 1 ELSE 0

Rat(n, d) ==
    IF d = 0 THEN <<Sign(n), 0>>
    ELSE LET g == GCD(Abs(n), Abs(d))
             s == IF d < 0 THEN 0 - 1 ELSE 1
         IN  <<(s * n) \div g, (s * d) \div g>>

I(n) == <<n, 1>>
Zero == I(0)
One == I(1)

IsFinite(q) == q[2] # 0
RDiv(a, b) == Rat(a[1] * b[2], a[2] * b[1])
RMul(a, b) == Rat(a[1] * b[1], a[2] * b[2])
RSub(a, b) == Rat(a[1] * b[2] - b[1] * a[2], a[2] * b[2])
RAdd(a, b) == Rat(a[1] * b[2] + b[1] * a[2], a[2] * b[2])
RLe(a, b) == a[1] * b[2] <= b[1] * a[2]
RLt(a, b) == a[1] * b[2] < b[1] * a[2]
RMin(a, b) == IF RLe(a, b) THEN a ELSE b          \* Math.min
RMax(a, b) == IF RLe(b, a) THEN a ELSE b          \* Math.max
\* Math.round: the nearest integer, halves rounded up (floor(q + 1/2)).
RRound(q) == IF IsFinite(q) THEN I((2 * q[1] + q[2]) \div (2 * q[2])) ELSE q
\* A number used as a condition: 0 and NaN are falsy.
Truthy(q) == q # Zero /\ q # <<0, 0>>


(***************************************************************************)
(* Files.  A File is a record; `chars` spells `name` so that the extension *)
(* can be computed.  `outcome` is what the browser does when the file is   *)
(* given to an <img>: "load", "error", or "hang" (neither before the       *)
(* validation timeout).  width and height are the decoded size.            *)
(***************************************************************************)
File(name, chars, type, size, outcome, w, h) ==
    [name |-> name, chars |-> chars, type |-> type, size |-> size,
     outcome |-> outcome, width |-> w, height |-> h]

\* slow.png does not load within 10 s and loads later; taint.png loads and its
\* pixel cannot be read; mid.png is 12x12

Digits == <<"0", "1", "2", "3", "4", "5", "6", "7">>
FillerNames == <<"0.png", "1.png", "2.png", "3.png", "4.png", "5.png", "6.png", "7.png">>
NumFillers == Len(Digits)

CoreFiles ==
    << File("a.png",    <<"a", ".", "p", "n", "g">>, "image/png", 1000, "load", 32, 16),
       File("a.png",    <<"a", ".", "p", "n", "g">>, "image/png", 2000, "load", 64, 64),
       File("b.JPG",    <<"b", ".", "J", "P", "G">>, "image/jpeg", MAX_FILE_SIZE, "load", 16, 32),
       File("doc.txt",  <<"d", "o", "c", ".", "t", "x", "t">>, "text/plain", 10, "error", 0, 0),
       File("big.png",  <<"b", "i", "g", ".", "p", "n", "g">>, "image/png", MAX_FILE_SIZE + 1, "load", 32, 32),
       File("x.gif",    <<"x", ".", "g", "i", "f">>, "image/png", 1000, "load", 32, 32),
       File("bad.webp", <<"b", "a", "d", ".", "w", "e", "b", "p">>, "image/webp", 1000, "error", 0, 0),
       File("dot.gif",  <<"d", "o", "t", ".", "g", "i", "f">>, "image/gif", 100, "load", 8, 8),
       File("slow.png", <<"s", "l", "o", "w", ".", "p", "n", "g">>, "image/png", 1000, "hang", 32, 32),
       File("taint.png", <<"t", "a", "i", "n", "t", ".", "p", "n", "g">>, "image/png", 1000, "nocanvas", 32, 32),
       File("mid.png",  <<"m", "i", "d", ".", "p", "n", "g">>, "image/png", 1000, "load", 12, 12) >>

Files ==
    CoreFiles \o [i \in 1..NumFillers |->
        File(FillerNames[i], <<Digits[i], ".", "p", "n", "g">>, "image/png", 1000, "load", 32, 32)]

NumCore == Len(CoreFiles)
FillerBatch == [i \in 1..NumFillers |-> NumCore + i]

\* The batches a drop or the file input delivers (sequences of indices into Files).
BatchSet ==
    { <<1, 2>>, <<4, 5, 6>>, <<7, 8, 3, 1>>, <<9, 10, 11>>, FillerBatch }

(***************************************************************************)
(* constants.ts                                                            *)
(***************************************************************************)
ACCEPTED_TYPES ==
    [t \in {"image/jpeg", "image/png", "image/gif", "image/webp"} |->
        CASE t = "image/jpeg" -> {<<".", "j", "p", "g">>, <<".", "j", "p", "e", "g">>}
          [] t = "image/png"  -> {<<".", "p", "n", "g">>}
          [] t = "image/gif"  -> {<<".", "g", "i", "f">>}
          [] t = "image/webp" -> {<<".", "w", "e", "b", "p">>}]

UpperCase == <<"A", "B", "C", "D", "E", "F", "G", "H", "I", "J", "K", "L", "M",
               "N", "O", "P", "Q", "R", "S", "T", "U", "V", "W", "X", "Y", "Z">>
LowerCase == <<"a", "b", "c", "d", "e", "f", "g", "h", "i", "j", "k", "l", "m",
               "n", "o", "p", "q", "r", "s", "t", "u", "v", "w", "x", "y", "z">>

\* String.prototype.toLowerCase, character by character
toLowerCase(chars) ==
    [i \in 1..Len(chars) |->
        IF \E k \in 1..Len(UpperCase) : UpperCase[k] = chars[i]
        THEN LowerCase[CHOOSE k \in 1..Len(UpperCase) : UpperCase[k] = chars[i]]
        ELSE chars[i]]

\* String.prototype.lastIndexOf('.'): 0-based, -1 when absent
lastIndexOfDot(chars) ==
    LET at == {i \in 1..Len(chars) : chars[i] = "."}
    IN  IF at = {} THEN 0 - 1
        ELSE (CHOOSE i \in at : \A j \in at : j <= i) - 1

\* x >>> 0: to an unsigned 32-bit integer.  A negative x wraps to x + 2^32, which
\* the model checker's 32-bit integers cannot hold; x is -1 or -2 here, and the
\* wrapped value is represented by 2^31 - 1 + x: like x + 2^32 it leaves room for
\* the + 2 that follows and is past the end of every string.
ToUint32(x) == IF x >= 0 THEN x ELSE 2147483647 + x

\* filename.slice(((filename.lastIndexOf('.') - 1) >>> 0) + 2).toLowerCase()
getFileExtension(chars) ==
    LET start == ToUint32(lastIndexOfDot(chars) - 1) + 2
    IN  IF start >= Len(chars) THEN << >>
        ELSE toLowerCase(SubSeq(chars, start + 1, Len(chars)))

(***************************************************************************)
(* validateImage: the value the promise resolves with.                     *)
(***************************************************************************)
\* img.onload: the value it hands to resolve
onload(f) ==
    IF f.width = 0 \/ f.height = 0
       \/ f.width > MAX_DIMENSION \/ f.height > MAX_DIMENSION
       \/ f.width < MIN_DIMENSION \/ f.height < MIN_DIMENSION
    THEN FALSE
    ELSE f.outcome # "nocanvas"             \* no 2d context, or drawImage/getImageData throws

\* img.onload of App.tsx: the bounds are CROP_SIZE.MIN and CROP_SIZE.MAX
App_onload(f) ==
    IF f.width = 0 \/ f.height = 0
       \/ f.width > CROP_SIZE_MAX \/ f.height > CROP_SIZE_MAX
       \/ f.width < CROP_SIZE_MIN \/ f.height < CROP_SIZE_MIN
    THEN FALSE
    ELSE f.outcome # "nocanvas"

Resolve_Mutant(promise, value) == Some(value)

\* resolve(value) of a promise: a settled promise keeps its value
Resolve(promise, value) == IF promise = None THEN Some(value) ELSE promise

validateImage(f) ==
    CASE f.outcome = "hang"  -> Get(Resolve(None, FALSE))    \* the 10 s timeout fires first
      [] f.outcome = "error" -> Get(Resolve(None, FALSE))    \* img.onerror
      [] OTHER -> Get(Resolve(None, onload(f)))               \* img.onload

App_validateImage(f) ==
    CASE f.outcome = "hang"  -> Get(Resolve(None, FALSE))
      [] f.outcome = "error" -> Get(Resolve(None, FALSE))
      [] OTHER -> Get(Resolve(None, App_onload(f)))

addUrlForCleanup_Mutant(list, url) == list

\* objectUrlsToCleanup.current.push(url)
addUrlForCleanup(list, url) == Append(list, url)

\* objectUrlsToCleanup.current.filter((u) => u !== url)
removeUrlFromCleanup(list, url) == SelectSeq(list, LAMBDA u : u # url)

(***************************************************************************)
(* createToastMessage: the title and the values its description shows.     *)
(***************************************************************************)
NoParams == [count |-> NoNum, filename |-> "", mimeType |-> "", added |-> NoNum, ignored |-> NoNum]

OrZero(n) == IF n = NoNum THEN 0 ELSE n     \* params?.count || 0

Msg(status, title, form, count, filename, mimeType, added, ignored) ==
    [status |-> status, title |-> title, form |-> form, count |-> count,
     filename |-> filename, mimeType |-> mimeType, added |-> added, ignored |-> ignored]

createToastMessage(type, params) ==
    CASE type = "limit" ->
            IF params.ignored = NoNum
            THEN Msg("warning", "Images ignored", "AT_LIMIT", OrZero(params.count), "", "", NoNum, NoNum)
            ELSE Msg("warning", "Images ignored", "PARTIAL", NoNum, "", "", OrZero(params.added), params.ignored)
      [] type = "duplicate" ->
            Msg("warning", "Duplicates detected", "DESC", OrZero(params.count), "", "", NoNum, NoNum)
      [] type = "invalid-type" ->
            Msg("warning", "Invalid files", "DESC", OrZero(params.count), "", "", NoNum, NoNum)
      [] type = "file-size" ->
            Msg("warning", "File too large", "DESC", NoNum, params.filename, "", NoNum, NoNum)
      [] type = "mime-mismatch" ->
            Msg("warning", "Mismatched file type", "DESC", NoNum, params.filename, params.mimeType, NoNum, NoNum)
      [] type = "invalid-image" ->
            Msg("error", "Invalid images", "DESC", OrZero(params.count), "", "", NoNum, NoNum)
      [] type = "load-error" ->
            Msg("error", "Error", "DESC", NoNum, "", "", NoNum, NoNum)

(***************************************************************************)
(* Sequence helpers                                                        *)
(***************************************************************************)
Slice0_TakesAll(s, n) == s

\* Array.prototype.slice(0, n)
Slice0(s, n) == SubSeq(s, 1, Min(n, Len(s)))


(***************************************************************************)
(* ImageData, and the initial state of the component.                      *)
(***************************************************************************)
\* the object literal of processFiles: id is `${file.name}-${Date.now()}`
NewImage(f, t, objectUrl) ==
    [id |-> [name |-> Files[f].name, t |-> t], file |-> f, url |-> objectUrl,
     cropped |-> FALSE, cropHistory |-> << >>, cropSettings |-> None]

ZeroSettings == [x |-> Zero, y |-> Zero, width |-> Zero, height |-> Zero, aspectRatio |-> Zero]

InitCrop ==
    /\ currentImage = None
    /\ activeCropSettings = ZeroSettings
    /\ globalCropSettings = None
    /\ initialCropSettings = None
    /\ isPerImageCrop = TRUE
    /\ originalDimensions = None
    /\ selectedAspectRatio = "free"
    /\ saveOnCancel = FALSE
    /\ isClosing = FALSE
    /\ isOpen = FALSE
    /\ cropper = None
    /\ imgLoad = None
    /\ cropJob = None
    /\ gestures = 0
    /\ lastUsed = None
    /\ lastKept = None

InitUpload ==
    /\ isProcessing = FALSE
    /\ processingTimeout = None
    /\ batch = None
    /\ fadeOut = FALSE
    /\ pendingToasts = << >>
    /\ toasts = << >>
    /\ now = 0
    /\ deletions = 0
    /\ late = {}
    /\ dropEvent = None
    /\ mounted = TRUE

Init ==
    /\ objectUrls = {}
    /\ objectUrlsToCleanup = << >>
    /\ urlCount = 0
    /\ images = << >>
    /\ build = "modular"
    /\ InitUpload
    /\ InitCrop

\* useMemo(() => new Set(images.map((img) => img.file.name)), [images])
existingFilenames(imgs) == {Files[imgs[i].file].name : i \in 1..Len(imgs)}

(***************************************************************************)
(* processFiles(files): the synchronous part.  The callback handed to      *)
(* setTimeout closes over `files` and over the `images` and                *)
(* `existingFilenames` of the render that created this processFiles.       *)
(***************************************************************************)
clearTimeout_Mutant(timers) == timers

\* clearTimeout(processingTimeoutRef.current): the ref holds the timer set last,
\* and timers of equal delay fire in the order they were set
clearTimeout(timers) ==
    IF timers = << >> THEN timers ELSE SubSeq(timers, 1, Len(timers) - 1)

processFilesGuard_Mutant(seen, files) == Len(files) = 0

\* if (isProcessing) return; if (files.length === 0) return;
processFilesGuard(seen, files) == seen \/ Len(files) = 0

\* seen, imgs: the isProcessing and images of the render whose processFiles is called;
\* tick: the time that passed since the last event; by: the handler that calls
processFiles(seen, files, imgs, tick, by) ==
    IF processFilesGuard(seen, files)
    THEN UNCHANGED <<processingTimeout, toasts, isProcessing, now>>
    ELSE /\ now + tick <= MaxClock
         /\ now' = now + tick
         /\ processingTimeout' =
                Append(clearTimeout(processingTimeout),
                       [files |-> files, imagesLength |-> Len(imgs),
                        existingFilenames |-> existingFilenames(imgs), by |-> by])
         /\ toasts' = << >>                      \* toast.closeAll()
         /\ isProcessing' = TRUE

\* the page's onDrop; the event then bubbles on to the window
handleDrop ==
    /\ mounted /\ dropEvent = None
    /\ \E files \in BatchSet :
           /\ processFiles(isProcessing, files, images, 1, "onDrop")
           /\ dropEvent' = Some([files |-> files, isProcessing |-> isProcessing])
    /\ UNCHANGED <<images, batch, fadeOut, pendingToasts, deletions, objectUrls,
                   objectUrlsToCleanup, urlCount, late, mounted, cropVars>>

\* the window's drop listener, for the same event: it is the handleDrop of the
\* render before the drop (stale) when the effect that replaces it has not run
\* yet, and the handleDrop of the new render otherwise
WindowDropListener ==
    /\ dropEvent # None
    /\ \E stale \in BOOLEAN :
           processFiles(IF stale THEN Get(dropEvent).isProcessing ELSE isProcessing,
                        Get(dropEvent).files, images, 0, "window")
    /\ dropEvent' = None
    /\ UNCHANGED <<images, batch, fadeOut, pendingToasts, deletions, objectUrls,
                   objectUrlsToCleanup, urlCount, late, mounted, cropVars>>

handleFileChange ==
    /\ mounted /\ dropEvent = None
    /\ \E files \in BatchSet : processFiles(isProcessing, files, images, 1, "input")
    /\ UNCHANGED <<images, batch, fadeOut, pendingToasts, deletions, urlVars, cropVars>>

(***************************************************************************)
(* The debounce callback, up to its first await.                           *)
(***************************************************************************)
PassesFilter_Mutant(f) ==
    /\ f.type \in DOMAIN ACCEPTED_TYPES
    /\ (<<".">> \o getFileExtension(f.chars)) \in ACCEPTED_TYPES[f.type]

\* the predicate of files.filter: does f pass the MIME, size and extension checks
PassesFilter(f) ==
    /\ f.type \in DOMAIN ACCEPTED_TYPES
    /\ ~ (f.size > MAX_FILE_SIZE)
    /\ (<<".">> \o getFileExtension(f.chars)) \in ACCEPTED_TYPES[f.type]

\* the messages the filter pushes for one file
FilterMessages(f) ==
    IF f.type \notin DOMAIN ACCEPTED_TYPES THEN << >>
    ELSE IF f.size > MAX_FILE_SIZE
         THEN <<createToastMessage("file-size", [NoParams EXCEPT !.filename = f.name])>>
    ELSE IF (<<".">> \o getFileExtension(f.chars)) \notin ACCEPTED_TYPES[f.type]
         THEN <<createToastMessage("mime-mismatch",
                    [NoParams EXCEPT !.filename = f.name, !.mimeType = f.type])>>
    ELSE << >>

RECURSIVE FilterMessagesAll(_)
FilterMessagesAll(files) ==
    IF files = << >> THEN << >>
    ELSE FilterMessages(Files[Head(files)]) \o FilterMessagesAll(Tail(files))

remainingSlotsOf_Mutant(imagesLength) == Max(0, MAX_IMAGES)

remainingSlotsOf_AtLeastOne(imagesLength) == Max(1, MAX_IMAGES - imagesLength)

\* 10 - images.length, never negative
remainingSlotsOf(imagesLength) == Max(0, MAX_IMAGES - imagesLength)

\* files.filter(...): the files that pass
imageFilesOf(files) ==
    SelectSeq(files, LAMBDA k : PassesFilter(Files[k]))

\* imageFiles.filter((file) => !existingFilenames.has(file.name))
nonDuplicateFilesOf(imageFiles, names) ==
    SelectSeq(imageFiles, LAMBDA k : Files[k].name \notin names)

\* setTimeout(() => setIsProcessing(false), FADE_OUT);
\* setTimeout(() => messages.forEach((msg) => toast(msg)), TOAST_DELAY)
Finish(messages) ==
    /\ fadeOut' = TRUE
    /\ pendingToasts' = Append(pendingToasts, messages)

\* validateImage(file) up to img.src = objectUrl: the URL it creates
StartValidation(count) == count + 1

ProcessingTimeoutFires ==
    /\ processingTimeout # << >>
    /\ batch = None
    /\ dropEvent = None
    /\ LET c == Head(processingTimeout)
           files == c.files
           remainingSlots == remainingSlotsOf(c.imagesLength)
           imageFiles == imageFilesOf(files)
           invalidTypeCount == Len(files) - Len(imageFiles)
           m1 == FilterMessagesAll(files)
           m2 == IF invalidTypeCount > 0
                 THEN Append(m1, createToastMessage("invalid-type",
                                     [NoParams EXCEPT !.count = invalidTypeCount]))
                 ELSE m1
           nonDuplicateFiles == nonDuplicateFilesOf(imageFiles, c.existingFilenames)
           duplicateCount == Len(imageFiles) - Len(nonDuplicateFiles)
           m3 == IF duplicateCount > 0
                 THEN Append(m2, createToastMessage("duplicate",
                                     [NoParams EXCEPT !.count = duplicateCount]))
                 ELSE m2
           filesToProcess == Slice0(nonDuplicateFiles, remainingSlots)
           ignoredDueToLimit == Max(0, Len(nonDuplicateFiles) - remainingSlots)
           objectUrl == StartValidation(urlCount)
       IN  /\ processingTimeout' = Tail(processingTimeout)
           /\ IF remainingSlots = 0
              THEN /\ Finish(<<createToastMessage("limit",
                                   [NoParams EXCEPT !.count = Len(files)])>>)
                   /\ batch' = None
                   /\ UNCHANGED <<objectUrls, objectUrlsToCleanup, urlCount>>
              ELSE IF invalidTypeCount > 0 /\ Len(imageFiles) = 0
              THEN /\ Finish(m2)
                   /\ batch' = None
                   /\ UNCHANGED <<objectUrls, objectUrlsToCleanup, urlCount>>
              ELSE IF duplicateCount > 0 /\ Len(nonDuplicateFiles) = 0
              THEN /\ Finish(m3)
                   /\ batch' = None
                   /\ UNCHANGED <<objectUrls, objectUrlsToCleanup, urlCount>>
              ELSE IF Len(filesToProcess) = 0
              THEN /\ Finish(IF ignoredDueToLimit > 0
                             THEN Append(m3, createToastMessage("limit",
                                      [NoParams EXCEPT !.added = Len(filesToProcess),
                                                       !.ignored = ignoredDueToLimit]))
                             ELSE m3)
                   /\ batch' = None
                   /\ UNCHANGED <<objectUrls, objectUrlsToCleanup, urlCount>>
              ELSE \* the for loop starts: await validateImage(filesToProcess[0])
                   /\ batch' = Some([files |-> filesToProcess, next |-> 1,
                                     invalidImageCount |-> 0, messages |-> m3,
                                     ignoredDueToLimit |-> ignoredDueToLimit,
                                     objectUrl |-> objectUrl,
                                     accepted |-> Len(nonDuplicateFiles),
                                     remainingSlots |-> remainingSlots,
                                     appended |-> << >>])
                   /\ urlCount' = objectUrl
                   /\ objectUrls' = objectUrls \cup {objectUrl}
                   /\ objectUrlsToCleanup' = addUrlForCleanup(objectUrlsToCleanup, objectUrl)
                   /\ UNCHANGED <<fadeOut, pendingToasts>>
    /\ UNCHANGED <<images, isProcessing, toasts, now, deletions, late, dropEvent,
                   mounted, cropVars>>

\* validateImage of the build that runs
validateImageOf(f) == IF build = "monolith" THEN App_validateImage(f) ELSE validateImage(f)

(***************************************************************************)
(* The for loop: the pending validateImage(file) settles by img.onload,    *)
(* img.onerror or its 10 s timer, each of which revokes the temporary URL; *)
(* the body of the iteration runs, and either the next validateImage is    *)
(* started or the callback runs to its end.  dt is the time that passed on *)
(* the Date.now() clock.  batch.accepted, batch.remainingSlots and         *)
(* batch.appended record what the callback computed and did.               *)
(***************************************************************************)
ValidationResolves(dt) ==
    /\ batch # None
    /\ dropEvent = None
    /\ now + dt <= MaxClock
    /\ now' = now + dt
    /\ LET b == Get(batch)
           file == b.files[b.next]
           isValid == validateImageOf(Files[file])
           invalidImageCount == IF isValid THEN b.invalidImageCount
                                ELSE b.invalidImageCount + 1
           m1 == IF invalidImageCount > 0
                 THEN Append(b.messages, createToastMessage("invalid-image",
                                     [NoParams EXCEPT !.count = invalidImageCount]))
                 ELSE b.messages
           m2 == IF b.ignoredDueToLimit > 0
                 THEN Append(m1, createToastMessage("limit",
                                     [NoParams EXCEPT
                                         !.added = Len(b.files) - invalidImageCount,
                                         !.ignored = b.ignoredDueToLimit]))
                 ELSE m1
           \* URL.revokeObjectURL(objectUrl); removeUrlFromCleanup(objectUrl)
           urls1 == objectUrls \ {b.objectUrl}
           list1 == removeUrlFromCleanup(objectUrlsToCleanup, b.objectUrl)
           \* const objectUrl = URL.createObjectURL(file); addUrlForCleanup(objectUrl)
           imageUrl == urlCount + 1
           count2 == IF isValid THEN imageUrl ELSE urlCount
           urls2 == IF isValid THEN urls1 \cup {imageUrl} ELSE urls1
           list2 == IF isValid THEN addUrlForCleanup(list1, imageUrl) ELSE list1
           newImage == NewImage(file, now', imageUrl)
           more == b.next < Len(b.files)
           nextUrl == StartValidation(count2)
       IN  /\ images' = IF isValid /\ mounted THEN Append(images, newImage) ELSE images
           /\ late' = IF Files[file].outcome = "hang"
                      THEN late \cup {[objectUrl |-> b.objectUrl, file |-> file,
                                       promise |-> Resolve(None, FALSE), loaded |-> FALSE]}
                      ELSE late
           /\ IF more
              THEN /\ batch' = Some([b EXCEPT !.next = b.next + 1,
                                              !.invalidImageCount = invalidImageCount,
                                              !.objectUrl = nextUrl,
                                              !.appended = IF isValid /\ mounted
                                                           THEN Append(b.appended, file)
                                                           ELSE b.appended])
                   /\ urlCount' = nextUrl
                   /\ objectUrls' = urls2 \cup {nextUrl}
                   /\ objectUrlsToCleanup' = addUrlForCleanup(list2, nextUrl)
                   /\ UNCHANGED <<fadeOut, pendingToasts>>
              ELSE /\ batch' = None
                   /\ urlCount' = count2
                   /\ objectUrls' = urls2
                   /\ objectUrlsToCleanup' = list2
                   /\ Finish(m2)
    /\ UNCHANGED <<isProcessing, processingTimeout, toasts, deletions, dropEvent,
                   mounted, cropVars>>

\* img.onload of a validateImage whose timer fired before: it revokes the URL
\* again, removes it from the list again and calls resolve on the settled promise
LateLoad ==
    /\ \E p \in late :
           /\ ~p.loaded
           /\ objectUrls' = objectUrls \ {p.objectUrl}
           /\ objectUrlsToCleanup' = removeUrlFromCleanup(objectUrlsToCleanup, p.objectUrl)
           /\ late' = (late \ {p}) \cup
                          {[p EXCEPT !.loaded = TRUE,
                                     !.promise = Resolve(p.promise,
                                         IF build = "monolith" THEN App_onload(Files[p.file])
                                         ELSE onload(Files[p.file]))]}
    /\ dropEvent = None
    /\ UNCHANGED <<images, isProcessing, processingTimeout, batch, fadeOut,
                   pendingToasts, toasts, now, deletions, urlCount, dropEvent, mounted,
                   cropVars>>

\* setTimeout(() => setIsProcessing(false), TIMING.FADE_OUT): it was set together
\* with the toast timer of the same batch and fires before it (200 ms < 300 ms),
\* and after the toast timer of any earlier batch.
FadeOutFires ==
    /\ fadeOut
    /\ dropEvent = None
    /\ Len(pendingToasts) = 1
    /\ fadeOut' = FALSE
    /\ isProcessing' = IF mounted THEN FALSE ELSE isProcessing
    /\ UNCHANGED <<images, processingTimeout, batch, pendingToasts, toasts, now,
                   deletions, urlVars, cropVars>>

\* setTimeout(() => messages.forEach((msg) => toast(msg)), TIMING.TOAST_DELAY)
ToastTimerFires ==
    /\ pendingToasts # << >>
    /\ dropEvent = None
    /\ ~ (fadeOut /\ Len(pendingToasts) = 1)
    /\ toasts' = toasts \o Head(pendingToasts)
    /\ pendingToasts' = Tail(pendingToasts)
    /\ UNCHANGED <<images, isProcessing, processingTimeout, batch, fadeOut, now,
                   deletions, urlVars, cropVars>>

\* handlePageClick: toast.closeAll()
handlePageClick ==
    /\ mounted /\ dropEvent = None
    /\ toasts # << >>
    /\ toasts' = << >>
    /\ UNCHANGED <<images, isProcessing, processingTimeout, batch, fadeOut,
                   pendingToasts, now, deletions, urlVars, cropVars>>

\* prev.filter((img) => img.id !== id)
WithoutId(imgs, id) == SelectSeq(imgs, LAMBDA img : img.id # id)

\* prev.find((img) => img.id === id): the first image of that id
FindById(imgs, id) ==
    LET found == {i \in 1..Len(imgs) : imgs[i].id = id}
    IN  IF found = {} THEN None
        ELSE Some(imgs[CHOOSE i \in found : \A j \in found : i <= j])

\* handleDelete(id), from the delete button of an image of the grid
handleDelete(id) ==
    /\ mounted /\ dropEvent = None
    /\ ~isOpen                                   \* the grid is behind the modal
    /\ deletions < MaxDeletions
    /\ deletions' = deletions + 1
    /\ LET imageToDelete == FindById(images, id)
       IN  IF imageToDelete # None
           THEN /\ objectUrls' = objectUrls \ {Get(imageToDelete).url}
                /\ objectUrlsToCleanup' =
                       removeUrlFromCleanup(objectUrlsToCleanup, Get(imageToDelete).url)
           ELSE UNCHANGED <<objectUrls, objectUrlsToCleanup>>
    /\ images' = WithoutId(images, id)
    /\ toasts' = << >>           \* the click bubbles to the Box: handlePageClick
    /\ UNCHANGED <<isProcessing, processingTimeout, batch, fadeOut, pendingToasts,
                   now, urlCount, late, dropEvent, mounted, modalVars>>

DeleteSome ==
    /\ \E i \in 1..Len(images) : handleDelete(images[i].id)
    /\ UNCHANGED gestures

\* the values of a sequence
Range(list) == {list[i] : i \in 1..Len(list)}

\* the component unmounts: the cleanups of the three effects run
Unmount ==
    /\ mounted /\ dropEvent = None
    /\ ~isOpen
    /\ mounted' = FALSE
    /\ processingTimeout' = clearTimeout(processingTimeout)
    /\ objectUrls' = objectUrls \ Range(objectUrlsToCleanup)
    /\ objectUrlsToCleanup' = << >>
    /\ UNCHANGED <<images, isProcessing, batch, fadeOut, pendingToasts, toasts, now,
                   deletions, urlCount, late, dropEvent, cropVars>>

Next ==
    \/ handleDrop
    \/ WindowDropListener
    \/ handleFileChange
    \/ ProcessingTimeoutFires
    \/ \E dt \in {0, 1} : ValidationResolves(dt)
    \/ LateLoad
    \/ FadeOutFires
    \/ ToastTimerFires
    \/ handlePageClick
    \/ DeleteSome
    \/ Unmount

Spec == Init /\ [][Next]_vars

\* The component some time after it was mounted, with nothing uploaded yet, and
\* with the timers firing and the events in flight being delivered: the
\* window listener of a drop that the page's onDrop has handled runs next; the
\* debounce timer, the image events and 10 s timers of validateImage, and the
\* FADE_OUT and TOAST_DELAY timers run once they are due, however many drops
\* are dispatched in between (a dispatch holds them up for its duration only)
InitLive ==
    /\ images = << >>
    /\ build = "modular"
    /\ objectUrls = {}
    /\ objectUrlsToCleanup = << >>
    /\ urlCount = 0
    /\ isProcessing = FALSE
    /\ processingTimeout = None
    /\ batch = None
    /\ fadeOut = FALSE
    /\ pendingToasts = << >>
    /\ toasts = << >>
    /\ now = MaxClock - 2
    /\ deletions = 0
    /\ late = {}
    /\ dropEvent = None
    /\ mounted = TRUE
    /\ InitCrop

SpecLive ==
    /\ InitLive /\ [][Next]_vars
    /\ WF_vars(WindowDropListener)
    /\ SF_vars(ProcessingTimeoutFires)
    /\ SF_vars(\E dt \in {0, 1} : ValidationResolves(dt))
    /\ SF_vars(ToastTimerFires)
    /\ SF_vars(FadeOutFires)

\* the same component as App.tsx has it
InitApp ==
    /\ images = << >>
    /\ build = "monolith"
    /\ objectUrls = {}
    /\ objectUrlsToCleanup = << >>
    /\ urlCount = 0
    /\ InitUpload
    /\ InitCrop

SpecApp == InitApp /\ [][Next]_vars

(***************************************************************************)
(* The crop modal: rectangles, settings and the three React states the     *)
(* crop handlers write (activeCropSettings, images, globalCropSettings).   *)
(***************************************************************************)
Rect(x, y, w, h) == [x |-> x, y |-> y, width |-> w, height |-> h]

\* the x, y, width and height of settings or of widget data
RectOf(s) == Rect(s.x, s.y, s.width, s.height)

\* { x, y, width, height, aspectRatio }
Settings(r, aspectRatio) ==
    [x |-> r.x, y |-> r.y, width |-> r.width, height |-> r.height,
     aspectRatio |-> aspectRatio]

ZeroRect == Rect(Zero, Zero, Zero, Zero)

\* Math.round of each of x, y, width, height
RoundRect(r) == Rect(RRound(r.x), RRound(r.y), RRound(r.width), RRound(r.height))

RAbs(q) == <<Abs(q[1]), q[2]>>

\* img.width, img.height of the decoded file
DimensionsOf(f) == [width |-> I(Files[f].width), height |-> I(Files[f].height)]

\* the object literal defaultSettings of openCropModal
defaultSettings(dimensions) ==
    [width |-> RDiv(dimensions.width, I(2)), height |-> RDiv(dimensions.height, I(2)),
     x |-> RDiv(dimensions.width, I(4)), y |-> RDiv(dimensions.height, I(4)),
     aspectRatio |-> Zero]

getSelectionFromAspectRatio(ratio, dims) ==
    IF ratio = One THEN "square"
    ELSE IF /\ dims # None
            /\ IsFinite(ratio)
            /\ RLt(RAbs(RSub(ratio, RDiv(Get(dims).width, Get(dims).height))), Rat(1, 10000))
         THEN "original"
         ELSE "free"

getAspectRatioFromSelection_OneIfFixed(value) ==
    IF value = "free" THEN Zero ELSE One

getAspectRatioFromSelection(value) ==
    CASE value = "original" ->
            IF originalDimensions # None
            THEN RDiv(Get(originalDimensions).width, Get(originalDimensions).height)
            ELSE Zero
      [] value = "square" -> One
      [] OTHER -> Zero

\* prev.map((img) => img.id === id ? { ...img, cropSettings: s } : img)
SetCropSettings(imgs, id, s) ==
    [i \in 1..Len(imgs) |->
        IF imgs[i].id = id THEN [imgs[i] EXCEPT !.cropSettings = Some(s)] ELSE imgs[i]]

\* the three states as the handler finds them, and the queued writes applied
CropState ==
    [active |-> activeCropSettings, images |-> images, global |-> globalCropSettings]

Commit(st) ==
    /\ activeCropSettings' = st.active
    /\ images' = st.images
    /\ globalCropSettings' = st.global

\* the tail of updateCropSettings, of handleAspectChange: per image or global
StoreByMode(st, newCropSettings) ==
    IF isPerImageCrop /\ currentImage # None
    THEN [st EXCEPT !.images = SetCropSettings(st.images, Get(currentImage).id, newCropSettings)]
    ELSE [st EXCEPT !.global = Some(newCropSettings)]

\* app/ImageCropperApp.tsx updateCropSettings(data); activeCropSettings.aspectRatio
\* is the one of the render that created the callback
updateCropSettings(st, data) ==
    LET newCropSettings == Settings(data, activeCropSettings.aspectRatio)
    IN  StoreByMode([st EXCEPT !.active = newCropSettings], newCropSettings)

\* App.tsx updateCropSettings(data)
App_updateCropSettings(st, data) ==
    LET aspectRatio == RDiv(data.width, data.height)
        newCropSettings == Settings(RoundRect(data), aspectRatio)
    IN  StoreByMode([st EXCEPT !.active = newCropSettings], newCropSettings)

\* handleCropEvent(e): e.detail (app/ImageCropperApp.tsx) and cropper.getData()
\* (App.tsx) are both the rectangle the widget holds, `data`
handleCropEvent(st, data) ==
    IF isClosing THEN st
    ELSE IF build = "modular" THEN updateCropSettings(st, data)
    ELSE App_updateCropSettings(st, data)

\* what a crop event writes to the global memory
StoredRect(data) == IF build = "modular" THEN data ELSE RoundRect(data)

\* isOpen has become false: the modal unmounts and with it the widget; App.tsx
\* also runs its effect on isOpen (destroy, reset activeCropSettings,
\* setIsClosing(true) ... setIsClosing(false)).  `closing` is the isClosing the
\* handler leaves behind.
CloseModal(closing) ==
    /\ isOpen' = FALSE
    /\ cropper' = None
    /\ IF build = "monolith" /\ isOpen
       THEN /\ isClosing' = FALSE
            /\ activeCropSettings' = ZeroSettings
       ELSE /\ isClosing' = closing
            /\ activeCropSettings' = activeCropSettings

\* a handleCrop call that is waiting for toBlob holds on to the destroyed widget
Orphaned(job) == IF job = None THEN None ELSE Some([Get(job) EXCEPT !.alive = FALSE])

(***************************************************************************)
(* openCropModal(image): the click, and the load or the failure of the     *)
(* window.Image.  onload and onerror close over the image, isPerImageCrop  *)
(* and globalCropSettings of the render in which the image was clicked.    *)
(***************************************************************************)
openCropModal(i) ==
    /\ ~isOpen                                   \* the grid is behind the modal
    /\ imgLoad = None
    /\ gestures < MaxGestures
    /\ gestures' = gestures + 1
    /\ currentImage' = Some([id |-> images[i].id, file |-> images[i].file])
    /\ imgLoad' = Some([image |-> images[i], isPerImageCrop |-> isPerImageCrop,
                        globalCropSettings |-> globalCropSettings, kept |-> lastKept])
    /\ toasts' = << >>            \* the click bubbles to the Box: handlePageClick
    /\ UNCHANGED <<urlVars, images, isProcessing, processingTimeout, batch, fadeOut,
                   pendingToasts, now, deletions>>
    /\ UNCHANGED <<activeCropSettings, globalCropSettings, initialCropSettings,
                   isPerImageCrop, originalDimensions, selectedAspectRatio,
                   saveOnCancel, isClosing, isOpen, cropper, cropJob, build, lastUsed, lastKept>>

OpenSome == \E i \in 1..Len(images) : openCropModal(i)

\* the delete button of an image, counted as a gesture
DeleteGesture ==
    /\ gestures < MaxGestures
    /\ gestures' = gestures + 1
    /\ \E i \in 1..Len(images) : handleDelete(images[i].id)

initialSettingsOf_IgnoresMode(c, dimensions) ==
    IF c.globalCropSettings # None THEN Get(c.globalCropSettings)
    ELSE IF c.image.cropSettings # None THEN Get(c.image.cropSettings)
    ELSE defaultSettings(dimensions)

initialSettingsOf_ImageFirst(c, dimensions) ==
    IF c.image.cropSettings # None THEN Get(c.image.cropSettings)
    ELSE IF ~c.isPerImageCrop /\ c.globalCropSettings # None THEN Get(c.globalCropSettings)
    ELSE defaultSettings(dimensions)

\* image.cropSettings || defaultSettings, or
\* globalCropSettings || image.cropSettings || defaultSettings
initialSettingsOf(c, dimensions) ==
    IF c.isPerImageCrop
    THEN IF c.image.cropSettings # None THEN Get(c.image.cropSettings)
         ELSE defaultSettings(dimensions)
    ELSE IF c.globalCropSettings # None THEN Get(c.globalCropSettings)
         ELSE IF c.image.cropSettings # None THEN Get(c.image.cropSettings)
         ELSE defaultSettings(dimensions)

\* the object URL of a deleted image is revoked (handleDelete)
IsListed(id) == \E k \in 1..Len(images) : images[k].id = id

ImgOnload ==
    /\ imgLoad # None
    /\ IsListed(Get(imgLoad).image.id)
    /\ LET c == Get(imgLoad)
           dimensions == DimensionsOf(c.image.file)
           initialSettings == initialSettingsOf(c, dimensions)
       IN  /\ originalDimensions' = Some(dimensions)
           /\ initialCropSettings' = Some(initialSettings)
           /\ activeCropSettings' = initialSettings
           /\ selectedAspectRatio' =
                  getSelectionFromAspectRatio(initialSettings.aspectRatio, Some(dimensions))
    /\ isOpen' = TRUE                            \* onOpen()
    \* app/ImageCropperApp.tsx: useEffect(() => { if (isOpen) setIsClosing(false) })
    /\ isClosing' = IF build = "modular" THEN FALSE ELSE isClosing
    /\ imgLoad' = None
    /\ UNCHANGED <<uploadVars, currentImage, globalCropSettings, isPerImageCrop,
                   saveOnCancel, cropper, cropJob, build, gestures,
                   lastUsed, lastKept>>

ImgOnerror ==
    /\ imgLoad # None
    /\ ~IsListed(Get(imgLoad).image.id)
    /\ toasts' = Append(toasts, createToastMessage("load-error", NoParams))
    /\ imgLoad' = None
    /\ UNCHANGED <<urlVars, images, isProcessing, processingTimeout, batch, fadeOut,
                   pendingToasts, now, deletions>>
    /\ UNCHANGED <<currentImage, activeCropSettings, globalCropSettings,
                   initialCropSettings, isPerImageCrop, originalDimensions,
                   selectedAspectRatio, saveOnCancel, isClosing, isOpen, cropper,
                   cropJob, build, gestures, lastUsed, lastKept>>

(***************************************************************************)
(* handleCropperReady: the widget is built and is given the rectangle of   *)
(* initialCropSettings; the crop event it fires is handled.                *)
(***************************************************************************)
handleCropperReady ==
    /\ isOpen
    /\ cropper = None
    /\ currentImage # None
    /\ initialCropSettings # None
    /\ LET data == RectOf(Get(initialCropSettings))
       IN  /\ cropper' = Some(data)
           /\ Commit(handleCropEvent(CropState, data))
           /\ lastKept' = IF ~isClosing /\ ~isPerImageCrop
                          THEN Some(StoredRect(data)) ELSE lastKept
    /\ UNCHANGED <<urlVars, isProcessing, processingTimeout, batch, fadeOut, pendingToasts,
                   toasts, now, deletions>>
    /\ UNCHANGED <<currentImage, initialCropSettings, isPerImageCrop,
                   originalDimensions, selectedAspectRatio, saveOnCancel, isClosing,
                   isOpen, imgLoad, cropJob, build, gestures, lastUsed>>

(***************************************************************************)
(* The user moves or resizes the crop box; the widget fires a crop event.  *)
(***************************************************************************)
\* the rectangles the crop box is dragged to
DragRects ==
    { Rect(Rat(5, 2), Rat(9, 4), Rat(21, 2), I(12)),
      Rect(I(4), I(8), I(12), I(8)) }

\* viewMode 1: the crop box stays inside the image
FitsImage(r, dimensions) ==
    /\ RLe(Zero, r.x) /\ RLe(Zero, r.y)
    /\ RLe(RAdd(r.x, r.width), dimensions.width)
    /\ RLe(RAdd(r.y, r.height), dimensions.height)

CropBoxMoved(r) ==
    /\ isOpen
    /\ cropper # None
    /\ FitsImage(r, Get(originalDimensions))
    /\ gestures < MaxGestures
    /\ gestures' = gestures + 1
    /\ cropper' = Some(r)
    /\ Commit(handleCropEvent(CropState, r))
    /\ lastUsed' = IF ~isPerImageCrop THEN Some(r) ELSE lastUsed
    /\ lastKept' = IF ~isClosing /\ ~isPerImageCrop THEN Some(StoredRect(r)) ELSE lastKept
    /\ UNCHANGED <<urlVars, isProcessing, processingTimeout, batch, fadeOut, pendingToasts,
                   toasts, now, deletions>>
    /\ UNCHANGED <<currentImage, initialCropSettings, isPerImageCrop,
                   originalDimensions, selectedAspectRatio, saveOnCancel, isClosing,
                   isOpen, imgLoad, cropJob, build>>

MovedSome == \E r \in DragRects : CropBoxMoved(r)

(***************************************************************************)
(* handleAspectChange(e).  The crop events fired by setAspectRatio and     *)
(* setData are handled before the handler's own three writes, which       *)
(* replace what they wrote.                                                *)
(***************************************************************************)
handleAspectChange(value) ==
    /\ isOpen
    /\ value # selectedAspectRatio               \* onChange of the <select>
    /\ gestures < MaxGestures
    /\ gestures' = gestures + 1
    /\ selectedAspectRatio' = value
    /\ LET aspectRatio == getAspectRatioFromSelection(value)
       IN  IF cropper # None
           THEN LET currentData == Get(cropper)
                    newCropSettings ==
                        [x |-> currentData.x, y |-> currentData.y,
                         width |-> currentData.width,
                         height |-> IF Truthy(aspectRatio)
                                    THEN RDiv(currentData.width, aspectRatio)
                                    ELSE currentData.height,
                         aspectRatio |-> aspectRatio]
                    st1 == handleCropEvent(CropState, RectOf(newCropSettings))
                IN  /\ cropper' = Some(RectOf(newCropSettings))
                    /\ Commit(StoreByMode([st1 EXCEPT !.active = newCropSettings],
                                          newCropSettings))
                    /\ lastUsed' = IF ~isPerImageCrop THEN Some(RectOf(newCropSettings))
                                   ELSE lastUsed
                    /\ lastKept' = IF ~isPerImageCrop THEN Some(RectOf(newCropSettings))
                                   ELSE lastKept
           ELSE UNCHANGED <<cropper, activeCropSettings, images, globalCropSettings,
                            lastUsed, lastKept>>
    /\ UNCHANGED <<urlVars, isProcessing, processingTimeout, batch, fadeOut, pendingToasts,
                   toasts, now, deletions>>
    /\ UNCHANGED <<currentImage, initialCropSettings, isPerImageCrop,
                   originalDimensions, saveOnCancel, isClosing, isOpen, imgLoad,
                   cropJob, build>>

AspectSome == \E value \in {"free", "original", "square"} : handleAspectChange(value)

(***************************************************************************)
(* handleNumericChange                                                     *)
(***************************************************************************)
\* the edits made: the field, and the number Number(value) makes of the text
NumericEdits == { <<"x", 0 - 3>>, <<"y", 7>>, <<"width", 12>>, <<"height", 7>> }

App_NumericEdits == { <<"x", 0 - 3>>, <<"y", 7>>, <<"width", 40>>, <<"height", 7>> }

\* app/ImageCropperApp.tsx: the settings the updater of setActiveCropSettings
\* computes from prev and returns
newCropSettingsOf(prev, key, value) ==
    LET num == RMax(Zero, I(value))
        aspectRatio == getAspectRatioFromSelection(selectedAspectRatio)
        edited == [prev EXCEPT ![key] = num]
    IN  IF Truthy(aspectRatio) /\ key \in {"width", "height"}
        THEN LET otherKey == IF key = "width" THEN "height" ELSE "width"
             IN  [edited EXCEPT ![otherKey] = RDiv(num, aspectRatio)]
        ELSE edited

\* app/ImageCropperApp.tsx handleNumericChange(key, value)
handleNumericChange(key, value) ==
    /\ build = "modular"
    /\ isOpen
    /\ gestures < MaxGestures
    /\ gestures' = gestures + 1
    /\ LET newCropSettings == newCropSettingsOf(activeCropSettings, key, value)
       IN  IF cropper # None
           THEN \* cropper.setData(newCropSettings) and its crop event
                LET st1 == handleCropEvent(CropState, RectOf(newCropSettings))
                IN  /\ cropper' = Some(RectOf(newCropSettings))
                    /\ Commit([st1 EXCEPT !.active = newCropSettings])
                    /\ lastUsed' = IF ~isPerImageCrop THEN Some(RectOf(newCropSettings))
                                   ELSE lastUsed
                    /\ lastKept' = IF ~isClosing /\ ~isPerImageCrop
                                   THEN Some(RectOf(newCropSettings)) ELSE lastKept
           ELSE /\ activeCropSettings' = newCropSettings
                /\ UNCHANGED <<cropper, images, globalCropSettings, lastUsed, lastKept>>
    /\ UNCHANGED <<urlVars, isProcessing, processingTimeout, batch, fadeOut, pendingToasts,
                   toasts, now, deletions>>
    /\ UNCHANGED <<currentImage, initialCropSettings, isPerImageCrop,
                   originalDimensions, selectedAspectRatio, saveOnCancel, isClosing,
                   isOpen, imgLoad, cropJob, build>>

NumericSome == \E e \in NumericEdits : handleNumericChange(e[1], e[2])

\* App.tsx: the switch of handleNumericChange, the rectangle given to setData
newDataOf(currentData, key, num, imageWidth, imageHeight) ==
    CASE key = "x" ->
            [currentData EXCEPT
                !.x = RMax(Zero, RMin(RSub(imageWidth, currentData.width), num))]
      [] key = "y" ->
            [currentData EXCEPT
                !.y = RMax(Zero, RMin(RSub(imageHeight, currentData.height), num))]
      [] key = "width" ->
            [currentData EXCEPT
                !.width = RMax(I(CROP_SIZE_MIN), RMin(RSub(imageWidth, currentData.x), num))]
      [] key = "height" ->
            [currentData EXCEPT
                !.height = RMax(I(CROP_SIZE_MIN), RMin(RSub(imageHeight, currentData.y), num))]

\* App.tsx handleNumericChange(key, value, isComplete): onChange passes false,
\* Enter and blur pass true
App_handleNumericChange(key, value, isComplete) ==
    /\ build = "monolith"
    /\ isOpen
    /\ cropper # None                            \* if (!cropper) return
    /\ gestures < MaxGestures
    /\ gestures' = gestures + 1
    /\ LET cropMax == IF key \in {"x", "y"} THEN CROP_SIZE_MAX - CROP_SIZE_MIN
                      ELSE CROP_SIZE_MAX
           num == RMin(I(value), I(cropMax))
       IN  IF ~isComplete
           THEN /\ activeCropSettings' = [activeCropSettings EXCEPT ![key] = num]
                /\ UNCHANGED <<cropper, images, globalCropSettings, lastUsed, lastKept>>
           ELSE LET currentData == Get(cropper)
                    imageWidth == Get(originalDimensions).width    \* naturalWidth
                    imageHeight == Get(originalDimensions).height  \* naturalHeight
                    newData == newDataOf(currentData, key, num, imageWidth, imageHeight)
                    st1 == handleCropEvent(CropState, newData)
                    finalData == newData
                IN  /\ cropper' = Some(newData)
                    /\ Commit([st1 EXCEPT !.active =
                           Settings(RoundRect(finalData), activeCropSettings.aspectRatio)])
                    /\ lastUsed' = IF ~isPerImageCrop THEN Some(newData) ELSE lastUsed
                    /\ lastKept' = IF ~isClosing /\ ~isPerImageCrop
                                   THEN Some(StoredRect(newData)) ELSE lastKept
    /\ UNCHANGED <<urlVars, isProcessing, processingTimeout, batch, fadeOut, pendingToasts,
                   toasts, now, deletions>>
    /\ UNCHANGED <<currentImage, initialCropSettings, isPerImageCrop,
                   originalDimensions, selectedAspectRatio, saveOnCancel, isClosing,
                   isOpen, imgLoad, cropJob, build>>

App_NumericSome ==
    \E e \in App_NumericEdits : \E isComplete \in BOOLEAN :
        App_handleNumericChange(e[1], e[2], isComplete)

(***************************************************************************)
(* handleCrop: up to `await new Promise(resolve => canvas.toBlob(resolve))`,*)
(* and from there.  The continuation closes over currentImage and          *)
(* activeCropSettings of the render in which the button was clicked, and   *)
(* over the widget instance.                                               *)
(***************************************************************************)
handleCrop ==
    /\ isOpen
    /\ cropper # None
    /\ currentImage # None
    /\ cropJob = None
    /\ cropJob' = Some([currentImage |-> Get(currentImage),
                        aspectRatio |-> activeCropSettings.aspectRatio,
                        alive |-> TRUE])
    /\ toasts' = << >>            \* the click bubbles to the Box: handlePageClick
    /\ UNCHANGED <<urlVars, images, isProcessing, processingTimeout, batch, fadeOut,
                   pendingToasts, now, deletions>>
    /\ UNCHANGED <<currentImage, activeCropSettings, globalCropSettings,
                   initialCropSettings, isPerImageCrop, originalDimensions,
                   selectedAspectRatio, saveOnCancel, isClosing, isOpen, cropper,
                   imgLoad, build, gestures, lastUsed, lastKept>>

\* cropper.getData() of the continuation
JobData(job) == IF job.alive THEN Get(cropper) ELSE ZeroRect

WithCrop_RoundedSettings(imgs, id, newCropSettings, data) ==
    [i \in 1..Len(imgs) |->
        IF imgs[i].id = id
        THEN [imgs[i] EXCEPT !.cropped = TRUE,
                             !.cropSettings = Some(Settings(RoundRect(data),
                                                            newCropSettings.aspectRatio)),
                             !.cropHistory = Append(imgs[i].cropHistory, RoundRect(data))]
        ELSE imgs[i]]

\* prev.map(...) of the two success branches
WithCrop(imgs, id, newCropSettings, data) ==
    [i \in 1..Len(imgs) |->
        IF imgs[i].id = id
        THEN [imgs[i] EXCEPT !.cropped = TRUE,
                             !.cropSettings = Some(newCropSettings),
                             !.cropHistory = Append(imgs[i].cropHistory, RoundRect(data))]
        ELSE imgs[i]]

\* outcome "null": toBlob gives no blob; "ok": the branch taken runs to its end;
\* "throw": the inner try throws at its first statement.
\* hasPicker: window.showSaveFilePicker exists; the two branches differ in the
\* link.click() of the fallback only, which leaves the React state alone.
ToBlobResolves(outcome, hasPicker) ==
    /\ cropJob # None
    /\ cropJob' = None
    /\ LET job == Get(cropJob)
           data == JobData(job)
           newCropSettings == Settings(data, job.aspectRatio)
       IN  CASE outcome = "null" ->
                    UNCHANGED <<images, globalCropSettings, isOpen, cropper,
                                isClosing, activeCropSettings, lastUsed, lastKept>>
             [] outcome = "ok" ->
                    /\ images' = WithCrop(images, job.currentImage.id, newCropSettings, data)
                    /\ globalCropSettings' = Some(newCropSettings)
                    /\ CloseModal(isClosing)
                    /\ lastUsed' = Some(data)
                    /\ lastKept' = Some(data)
             [] outcome = "throw" ->
                    /\ globalCropSettings' = Some(newCropSettings)
                    /\ images' = SetCropSettings(images, job.currentImage.id, newCropSettings)
                    /\ CloseModal(isClosing)
                    /\ lastKept' = Some(data)
                    /\ UNCHANGED lastUsed
    /\ UNCHANGED <<urlVars, isProcessing, processingTimeout, batch, fadeOut, pendingToasts,
                   toasts, now, deletions>>
    /\ UNCHANGED <<currentImage, initialCropSettings, isPerImageCrop,
                   originalDimensions, selectedAspectRatio, saveOnCancel, imgLoad,
                   build, gestures>>

BlobSome ==
    \E outcome \in {"null", "ok", "throw"} : \E hasPicker \in BOOLEAN :
        ToBlobResolves(outcome, hasPicker)

(***************************************************************************)
(* handleCancel                                                            *)
(***************************************************************************)
cancelSettingsOf_AlwaysCurrent(save, currentData, initial, aspectRatio) ==
    Settings(currentData, aspectRatio)

cancelSettingsOf_KeepsInitialRatio(save, currentData, initial, aspectRatio) ==
    IF save THEN Settings(currentData, aspectRatio) ELSE initial

cancelSettingsOf_AlwaysInitial(save, currentData, initial, aspectRatio) ==
    Settings(RectOf(initial), aspectRatio)

\* newCropSettings of handleCancel
cancelSettingsOf(save, currentData, initial, aspectRatio) ==
    IF save THEN Settings(currentData, aspectRatio)
    ELSE Settings(RectOf(initial), aspectRatio)

handleCancel ==
    /\ isOpen
    /\ IF cropper # None /\ currentImage # None /\ initialCropSettings # None
       THEN LET currentData == Get(cropper)
                aspectRatio == IF saveOnCancel
                               THEN getAspectRatioFromSelection(selectedAspectRatio)
                               ELSE getAspectRatioFromSelection("free")
                newCropSettings ==
                    cancelSettingsOf(saveOnCancel, currentData, Get(initialCropSettings),
                                     aspectRatio)
            IN  /\ globalCropSettings' = Some(newCropSettings)
                /\ images' = SetCropSettings(images, Get(currentImage).id, newCropSettings)
                /\ selectedAspectRatio' = IF ~saveOnCancel THEN "free"
                                          ELSE selectedAspectRatio
                /\ saveOnCancel' = saveOnCancel
                /\ lastKept' = Some(IF saveOnCancel THEN currentData
                                     ELSE RectOf(Get(initialCropSettings)))
       ELSE UNCHANGED <<globalCropSettings, images, selectedAspectRatio, saveOnCancel,
                        lastKept>>
    /\ CloseModal(TRUE)                          \* setIsClosing(true) ... onClose()
    /\ cropJob' = Orphaned(cropJob)
    /\ toasts' = << >>            \* the click bubbles to the Box: handlePageClick
    /\ UNCHANGED <<urlVars, isProcessing, processingTimeout, batch, fadeOut, pendingToasts,
                   now, deletions>>
    /\ UNCHANGED <<currentImage, initialCropSettings, isPerImageCrop,
                   originalDimensions, imgLoad, build, gestures, lastUsed>>

\* <Modal onClose={onClose}>: Escape closes the modal
ModalOnClose ==
    /\ isOpen
    /\ CloseModal(isClosing)
    /\ cropJob' = Orphaned(cropJob)
    /\ UNCHANGED <<uploadVars, currentImage, globalCropSettings, initialCropSettings,
                   isPerImageCrop, originalDimensions, selectedAspectRatio,
                   saveOnCancel, imgLoad, build, gestures, lastUsed,
                   lastKept>>

\* setIsPerImageCrop(e.target.value === 'per-image'), from the <select> of the page
handleCropMemoryChange(perImage) ==
    /\ ~isOpen                                   \* the page is behind the modal
    /\ perImage # isPerImageCrop                 \* onChange of the <select>
    /\ isPerImageCrop' = perImage
    /\ UNCHANGED <<uploadVars, currentImage, activeCropSettings, globalCropSettings,
                   initialCropSettings, originalDimensions, selectedAspectRatio,
                   saveOnCancel, isClosing, isOpen, cropper, imgLoad, cropJob,
                   build, gestures, lastUsed, lastKept>>

MemorySome == \E perImage \in BOOLEAN : handleCropMemoryChange(perImage)

\* onSaveOnCancelChange: setSaveOnCancel(e.target.checked)
onSaveOnCancelChange ==
    /\ isOpen
    /\ saveOnCancel' = ~saveOnCancel
    /\ toasts' = << >>            \* the click bubbles to the Box: handlePageClick
    /\ UNCHANGED <<urlVars, images, isProcessing, processingTimeout, batch, fadeOut,
                   pendingToasts, now, deletions>>
    /\ UNCHANGED <<currentImage, activeCropSettings, globalCropSettings,
                   initialCropSettings, isPerImageCrop, originalDimensions,
                   selectedAspectRatio, isClosing, isOpen, cropper, imgLoad, cropJob,
                   build, gestures, lastUsed, lastKept>>

(***************************************************************************)
(* The crop modal on a list of two images, b.JPG (16x32) and a.png (32x16),*)
(* as the batch <<7, 8, 3, 1>> leaves them.                                *)
(***************************************************************************)
InitTwoImages ==
    /\ images = <<NewImage(3, 1, 4), NewImage(1, 1, 6)>>
    /\ objectUrls = {4, 6}
    /\ objectUrlsToCleanup = <<4, 6>>
    /\ urlCount = 6
    /\ late = {}
    /\ dropEvent = None
    /\ mounted = TRUE
    /\ isProcessing = FALSE
    /\ processingTimeout = None
    /\ batch = None
    /\ fadeOut = FALSE
    /\ pendingToasts = << >>
    /\ toasts = << >>
    /\ now = 1
    /\ deletions = 0
    /\ InitCrop

\* the handlers the two builds share
NextModal ==
    \/ OpenSome
    \/ ImgOnload
    \/ ImgOnerror
    \/ handleCropperReady
    \/ MovedSome
    \/ AspectSome
    \/ handleCrop
    \/ BlobSome
    \/ handleCancel
    \/ ModalOnClose
    \/ MemorySome
    \/ onSaveOnCancelChange
    \/ DeleteGesture
    \/ handlePageClick

\* app/ImageCropperApp.tsx
InitCropSpec == InitTwoImages /\ build = "modular"

NextCrop == NextModal \/ NumericSome

SpecCrop == InitCropSpec /\ [][NextCrop]_vars

\* App.tsx
InitMono == InitTwoImages /\ build = "monolith"

NextMono == NextModal \/ App_NumericSome

SpecMono == InitMono /\ [][NextMono]_vars

(***************************************************************************)
(* Properties of the upload path, checked under Spec.                      *)
(***************************************************************************)

\* C1: the image list never holds more than 10 images, whatever batches are
\* dropped or chosen, whatever is deleted, and whatever the running callback
\* still has to validate: the files it has not yet validated fit into the
\* slots that are left.
C1_ListNeverExceedsLimit ==
    /\ Len(images) <= 10
    /\ batch # None =>
           Len(images) + (Len(Get(batch).files) - Get(batch).next + 1) <= 10

\* a full list, and a later batch that was turned away at the limit
C1_Witness ==
    /\ Len(images) = 10
    /\ \E k \in 1..Len(toasts) : toasts[k].form = "AT_LIMIT"

\* the suffix of `chars` of the length of `ext`, compared without regard to case
C9_EndsWith(chars, ext) ==
    /\ Len(ext) <= Len(chars)
    /\ toLowerCase(SubSeq(chars, Len(chars) - Len(ext) + 1, Len(chars))) = ext

\* C9: every image of the list comes from a file whose MIME type is one of the
\* four accepted types, whose size is at most 10 * 1024 * 1024 bytes, whose name
\* ends, case-insensitively, with an extension listed for its MIME type, and for
\* which validateImage resolves true.
C9_OnlyCheckedFilesListed ==
    \A i \in 1..Len(images) :
        LET f == Files[images[i].file]
        IN  /\ f.type \in {"image/jpeg", "image/png", "image/gif", "image/webp"}
            /\ f.size <= 10 * 1024 * 1024
            /\ \E ext \in ACCEPTED_TYPES[f.type] : C9_EndsWith(f.chars, ext)
            /\ validateImage(f)

\* b.JPG (upper-case extension, exactly 10 MB) is listed, and the same batch lost
\* files to validateImage
C9_Witness ==
    /\ \E i \in 1..Len(images) : Files[images[i].file].name = "b.JPG"
    /\ \E k \in 1..Len(toasts) : toasts[k].title = "Invalid images" /\ toasts[k].count = 2

\* C10: a file whose name equals the file name of an image already in the list
\* is not added: no step appends an image whose file name is the file name of an
\* image the list holds before the step.
C10_NoListedNameAdded ==
    [][ Len(images') > Len(images) =>
            Files[images'[Len(images')].file].name \notin existingFilenames(images) ]_vars

(***************************************************************************)
(* Properties of the crop modal, checked under SpecCrop and SpecMono.      *)
(***************************************************************************)

\* n is q rounded to the nearest integer, halves upwards
C2_IsRounded(n, q) ==
    /\ n[2] = 1
    /\ 2 * n[1] * q[2] - q[2] <= 2 * q[1]
    /\ 2 * q[1] < 2 * n[1] * q[2] + q[2]

\* C2: a handleCrop that gets a blob and runs to its end appends exactly one
\* entry to the cropHistory of the image it was started for, the widget's x, y,
\* width and height rounded to integers, leaves the earlier entries as they are,
\* sets cropped, and stores the unrounded rectangle as that image's cropSettings
\* and as globalCropSettings.
C2_CropAppendsOneRoundedEntry ==
    [][ (\E hasPicker \in BOOLEAN : ToBlobResolves("ok", hasPicker)) =>
            LET job == Get(cropJob)
                widget == IF job.alive THEN Get(cropper) ELSE ZeroRect
            IN  /\ Len(images') = Len(images)
                /\ \A i \in 1..Len(images) :
                       images[i].id = job.currentImage.id =>
                           LET before == images[i].cropHistory
                               after == images'[i].cropHistory
                           IN  /\ Len(after) = Len(before) + 1
                               /\ SubSeq(after, 1, Len(before)) = before
                               /\ C2_IsRounded(after[Len(after)].x, widget.x)
                               /\ C2_IsRounded(after[Len(after)].y, widget.y)
                               /\ C2_IsRounded(after[Len(after)].width, widget.width)
                               /\ C2_IsRounded(after[Len(after)].height, widget.height)
                               /\ images'[i].cropped
                               /\ images'[i].cropSettings # None
                               /\ RectOf(Get(images'[i].cropSettings)) = widget
                /\ globalCropSettings' # None
                /\ RectOf(Get(globalCropSettings')) = widget ]_vars

\* the second crop of an image, of the dragged rectangle (5/2, 9/4, 21/2, 12)
C2_Witness ==
    \E i \in 1..Len(images) :
        /\ images[i].cropped
        /\ Len(images[i].cropHistory) = 2
        /\ images[i].cropHistory[1] # images[i].cropHistory[2]
        /\ images[i].cropHistory[2] = Rect(I(3), I(2), I(11), I(12))
        /\ RectOf(Get(images[i].cropSettings)) = Rect(Rat(5, 2), Rat(9, 4), Rat(21, 2), I(12))
        /\ globalCropSettings = images[i].cropSettings

\* the default centered 50% crop of an image of natural size W x H
C3_Default(W, H) ==
    [x |-> RDiv(I(W), I(4)), y |-> RDiv(I(H), I(4)),
     width |-> RDiv(I(W), I(2)), height |-> RDiv(I(H), I(2)), aspectRatio |-> Zero]

\* C3: in per-image mode the modal starts with the cropSettings of the image
\* that was clicked when it has any and with the default centered 50% crop
\* otherwise, whatever globalCropSettings holds.
C3_PerImageStart ==
    [][ (ImgOnload /\ Get(imgLoad).isPerImageCrop) =>
            LET image == Get(imgLoad).image
                start == IF image.cropSettings # None THEN Get(image.cropSettings)
                         ELSE C3_Default(Files[image.file].width, Files[image.file].height)
            IN  /\ initialCropSettings' = Some(start)
                /\ activeCropSettings' = start ]_vars

\* a modal just opened in per-image mode with the default crop, while the global
\* memory holds a different rectangle
C3_Witness ==
    /\ isOpen /\ cropper = None /\ isPerImageCrop
    /\ globalCropSettings # None
    /\ initialCropSettings =
           Some(C3_Default(Files[Get(currentImage).file].width,
                           Files[Get(currentImage).file].height))
    /\ RectOf(Get(globalCropSettings)) # RectOf(Get(initialCropSettings))

\* C4: in global mode the modal starts with globalCropSettings when it is set,
\* otherwise with the cropSettings of the image that was clicked, otherwise with
\* the default centered 50% crop; the chosen settings become initialCropSettings
\* and activeCropSettings.
C4_GlobalStart ==
    [][ (ImgOnload /\ ~Get(imgLoad).isPerImageCrop) =>
            LET image == Get(imgLoad).image
                memory == Get(imgLoad).globalCropSettings
                start == IF memory # None THEN Get(memory)
                         ELSE IF image.cropSettings # None THEN Get(image.cropSettings)
                         ELSE C3_Default(Files[image.file].width, Files[image.file].height)
            IN  /\ initialCropSettings' = Some(start)
                /\ activeCropSettings' = start ]_vars

\* a modal just opened in global mode from the memory, for an image that has
\* different settings of its own
C4_Witness ==
    /\ isOpen /\ cropper = None /\ ~isPerImageCrop
    /\ globalCropSettings # None
    /\ initialCropSettings = globalCropSettings
    /\ activeCropSettings = Get(initialCropSettings)
    /\ \E i \in 1..Len(images) :
           /\ images[i].id = Get(currentImage).id
           /\ images[i].cropSettings # None
           /\ images[i].cropSettings # globalCropSettings

C6_RatioMaintained ==
    [][ (/\ selectedAspectRatio \in {"original", "square"}
         /\ \E e \in NumericEdits :
                e[1] \in {"width", "height"} /\ handleNumericChange(e[1], e[2])) =>
            LET r == IF selectedAspectRatio = "square" THEN One
                     ELSE RDiv(Get(originalDimensions).width,
                               Get(originalDimensions).height)
            IN  RDiv(activeCropSettings'.width, activeCropSettings'.height) = r ]_vars

\* C7: the rectangle a completed numeric edit hands to the widget lies in the
\* image and is at least CROP_SIZE.MIN = 10 wide and high.
C7_ClampedIntoImage ==
    [][ (\E e \in App_NumericEdits : App_handleNumericChange(e[1], e[2], TRUE)) =>
            LET given == Get(cropper')
                imageWidth == Get(originalDimensions).width
                imageHeight == Get(originalDimensions).height
            IN  /\ RLe(Zero, given.x) /\ RLe(Zero, given.y)
                /\ RLe(RAdd(given.x, given.width), imageWidth)
                /\ RLe(RAdd(given.y, given.height), imageHeight)
                /\ RLe(I(10), given.width) /\ RLe(I(10), given.height) ]_vars

\* C8: after a crop event delivered while the modal is open and not closing,
\* the x, y, width and height of activeCropSettings are the widget's rectangle
\* and its aspectRatio is what it was.
C8_SynchronizedWithWidget ==
    [][ (~isClosing /\ \E r \in DragRects : CropBoxMoved(r)) =>
            /\ RectOf(activeCropSettings') = Get(cropper')
            /\ activeCropSettings'.aspectRatio = activeCropSettings.aspectRatio ]_vars

(***************************************************************************)
(* Properties of the debounce timer, the object URLs and the toasts,       *)
(* checked under Spec and SpecApp.                                         *)
(***************************************************************************)

C12_Removed == {images[i] : i \in 1..Len(images)} \ {images'[i] : i \in 1..Len(images')}

\* C12: every object URL created and not revoked is recorded in
\* objectUrlsToCleanup; deleting an image revokes the URL of the image deleted and
\* takes it off the list; unmounting revokes every outstanding URL and empties
\* the list; the URL of an image in the list is never revoked.
C12_UrlLifecycle ==
    [][ /\ objectUrls' \subseteq Range(objectUrlsToCleanup')
        /\ DeleteSome =>
               \A image \in C12_Removed :
                   /\ image.url \notin objectUrls'
                   /\ image.url \notin Range(objectUrlsToCleanup')
        /\ Unmount => (objectUrls' = {} /\ objectUrlsToCleanup' = << >>)
        /\ mounted' => \A i \in 1..Len(images') : images'[i].url \in objectUrls' ]_vars

\* C13: when the list holds 10 images as the debounce callback runs, the
\* callback adds nothing, starts no validation, and queues exactly one toast,
\* 'Images ignored', whose count is the number of files of the batch.
C13_LimitCheckedFirst ==
    [][ (ProcessingTimeoutFires /\ Len(images) = 10) =>
            /\ images' = images
            /\ batch' = None
            /\ urlCount' = urlCount
            /\ Len(pendingToasts') = Len(pendingToasts) + 1
            /\ LET queued == pendingToasts'[Len(pendingToasts')]
               IN  /\ Len(queued) = 1
                   /\ queued[1].title = "Images ignored"
                   /\ queued[1].form = "AT_LIMIT"
                   /\ queued[1].count = Len(Head(processingTimeout).files) ]_vars

\* the full list, and the single toast of a batch of three files none of which
\* passes the filter
C13_Witness ==
    /\ Len(images) = 10
    /\ Len(toasts) = 1
    /\ toasts[1].title = "Images ignored"
    /\ toasts[1].form = "AT_LIMIT"
    /\ toasts[1].count = 3

\* the files of a batch that are accepted and are no duplicates, in batch order:
\* accepted MIME type, size within the maximum, an extension listed for the type,
\* and a name that no image of the list has
C14_Accepted(files, names) ==
    SelectSeq(files, LAMBDA k :
        LET f == Files[k]
        IN  /\ f.type \in {"image/jpeg", "image/png", "image/gif", "image/webp"}
            /\ f.size <= 10 * 1024 * 1024
            /\ \E ext \in ACCEPTED_TYPES[f.type] : C9_EndsWith(f.chars, ext)
            /\ f.name \notin names)

\* C14: when a batch has more accepted non-duplicate files than free slots, the
\* files validated are the first remainingSlots of them in batch order
\* (remainingSlots being 10 - the length of the list the batch was submitted to,
\* and none when that is 0); every
\* image the batch adds is appended to the end of the list, in batch order; and
\* the partial-limit toast queued at the end reports added = the number of images
\* the batch appended and ignored = accepted non-duplicates - remainingSlots.
C14_PartialLimit ==
    [][ /\ ProcessingTimeoutFires =>
               LET c == Head(processingTimeout)
                   accepted == C14_Accepted(c.files, c.existingFilenames)
                   remainingSlots == 10 - c.imagesLength
               IN  Len(accepted) > 10 - Len(images) =>
                       IF remainingSlots = 0 THEN batch' = None
                       ELSE /\ batch' # None
                            /\ Get(batch').files = SubSeq(accepted, 1, remainingSlots)
                            /\ Get(batch').next = 1
        /\ (mounted /\ \E dt \in {0, 1} : ValidationResolves(dt)) =>
               LET b == Get(batch)
                   appended == IF Len(images') > Len(images)
                               THEN Append(b.appended, images'[Len(images')].file)
                               ELSE b.appended
               IN  /\ \/ images' = images
                      \/ /\ images' = Append(images, images'[Len(images')])
                         /\ images'[Len(images')].file = b.files[b.next]
                   /\ (batch' = None /\ b.accepted > b.remainingSlots) =>
                          LET queued == pendingToasts'[Len(pendingToasts')]
                              last == queued[Len(queued)]
                          IN  /\ last.title = "Images ignored"
                              /\ last.form = "PARTIAL"
                              /\ last.added = Len(appended)
                              /\ last.ignored = b.accepted - b.remainingSlots ]_vars

\* seven images in the list, a batch of four accepted files: three are validated,
\* b.JPG alone is valid and is appended last, one file is ignored
C14_Witness ==
    /\ Len(images) = 8
    /\ Files[images[8].file].name = "b.JPG"
    /\ \E k \in 1..Len(toasts) :
           /\ toasts[k].form = "PARTIAL"
           /\ toasts[k].added = 1
           /\ toasts[k].ignored = 1

\* C15: the count of an 'Invalid files' toast that the debounce callback queues
\* is the number of files of the batch whose MIME type is not an accepted one.
C15_InvalidTypeCount ==
    [][ ProcessingTimeoutFires =>
            LET files == Head(processingTimeout).files
                wrongType == {i \in 1..Len(files) :
                                 Files[files[i]].type \notin
                                     {"image/jpeg", "image/png", "image/gif", "image/webp"}}
                queued == IF batch' # None THEN Get(batch').messages
                          ELSE pendingToasts'[Len(pendingToasts')]
            IN  \A k \in 1..Len(queued) :
                    queued[k].title = "Invalid files" =>
                        queued[k].count = Cardinality(wrongType) ]_vars

\* C16: while the component is mounted, isProcessing set by an accepted batch
\* becomes false again on every path of the callback; and a processFiles call
\* of a render in which isProcessing is true changes neither the list, the
\* debounce timer nor the toasts.
C16_ProcessingEnds ==
    /\ isProcessing ~> (~isProcessing \/ ~mounted)
    /\ [][ (\/ isProcessing /\ handleFileChange
            \/ isProcessing /\ handleDrop
            \/ dropEvent # None /\ Get(dropEvent).isProcessing /\ WindowDropListener) =>
               UNCHANGED <<images, processingTimeout, toasts, isProcessing>> ]_vars

\* a drop arrives while the images of an earlier batch are being validated
C16_Witness ==
    /\ dropEvent # None
    /\ Get(dropEvent).isProcessing
    /\ batch # None
    /\ Get(batch).next > 1
    /\ toasts = << >>

\* the result the dimension rule 16..16384 gives for a file
C17_Expected(f) ==
    /\ f.outcome = "load"
    /\ f.width # 0 /\ f.height # 0
    /\ f.width >= 16 /\ f.height >= 16
    /\ f.width <= 16384 /\ f.height <= 16384

\* C17: validateImage resolves with false when the image fails to load, when
\* the 10 s timer fires first, when a dimension is 0, below 16 or above 16384,
\* or when the pixel cannot be read, and with true otherwise (the loop appends
\* an image exactly when it resolved with true); when it has resolved, the
\* temporary URL is revoked and no longer listed; a load after the timeout
\* leaves the promise at false.
C17_ValidateImage ==
    [][ /\ \A dt \in {0, 1} :
               ValidationResolves(dt) =>
                   LET b == Get(batch)
                       f == Files[b.files[b.next]]
                   IN  /\ mounted =>
                              ((Len(images') = Len(images) + 1) <=> C17_Expected(f))
                       /\ b.objectUrl \notin objectUrls'
                       /\ b.objectUrl \notin Range(objectUrlsToCleanup')
        /\ LateLoad => \A p \in late' : p.promise = Some(FALSE) ]_vars

(***************************************************************************)
(* Properties of Cancel and of the aspect-ratio selection, checked under   *)
(* SpecCrop and SpecMono.                                                  *)
(***************************************************************************)

\* the cropSettings of every listed image of the id of the current image
C18_CurrentImageHolds(imgs, s) ==
    /\ \E i \in 1..Len(imgs) : imgs[i].id = Get(currentImage).id
    /\ \A i \in 1..Len(imgs) :
           imgs[i].id = Get(currentImage).id => imgs[i].cropSettings = Some(s)

\* the rectangle the modal was opened with, with aspectRatio 0
C18_Initial ==
    [x |-> Get(initialCropSettings).x, y |-> Get(initialCropSettings).y,
     width |-> Get(initialCropSettings).width,
     height |-> Get(initialCropSettings).height, aspectRatio |-> Zero]

C19_CancelSaves ==
    [][ (handleCancel /\ saveOnCancel /\ cropper # None) =>
            LET r == CASE selectedAspectRatio = "original" ->
                              RDiv(Get(originalDimensions).width,
                                   Get(originalDimensions).height)
                       [] selectedAspectRatio = "square" -> One
                       [] OTHER -> Zero
                kept == [x |-> Get(cropper).x, y |-> Get(cropper).y,
                         width |-> Get(cropper).width, height |-> Get(cropper).height,
                         aspectRatio |-> r]
            IN  /\ globalCropSettings' = Some(kept)
                /\ C18_CurrentImageHolds(images', kept)
                /\ Len(images') = Len(images)
                /\ \A i \in 1..Len(images) :
                       /\ images'[i].cropHistory = images[i].cropHistory
                       /\ images'[i].cropped = images[i].cropped
                /\ cropJob = None => cropJob' = None
                /\ ~isOpen' ]_vars

\* a modal in which the rectangle was changed with 1:1 selected, cancelled with
\* the box checked: the image and the memory hold the changed rectangle
C19_Witness ==
    /\ ~isOpen /\ isClosing /\ saveOnCancel
    /\ currentImage # None /\ initialCropSettings # None
    /\ selectedAspectRatio = "square"
    /\ RectOf(activeCropSettings) # RectOf(Get(initialCropSettings))
    /\ globalCropSettings = Some(Settings(RectOf(activeCropSettings), One))
    /\ C18_CurrentImageHolds(images, Settings(RectOf(activeCropSettings), One))
    /\ \A i \in 1..Len(images) : images[i].cropHistory = << >> /\ ~images[i].cropped

\* C20 as stated: a change of the aspect-ratio selection on a ready widget keeps x, y and
\* width of the widget's rectangle; for "original" (r = W / H) and "square"
\* (r = 1) the height becomes width / r, so that width / height = r, and for
\* "free" (r = 0) the height stays; r is stored in activeCropSettings.aspectRatio
\* and the rectangle is the one handed to the widget.
C20_AspectChange ==
    [][ (AspectSome /\ cropper # None) =>
            LET d == Get(cropper)
                r == CASE selectedAspectRatio' = "original" ->
                              RDiv(Get(originalDimensions).width,
                                   Get(originalDimensions).height)
                       [] selectedAspectRatio' = "square" -> One
                       [] OTHER -> Zero
                s == activeCropSettings'
            IN  /\ s.x = d.x /\ s.y = d.y /\ s.width = d.width
                /\ s.aspectRatio = r
                /\ IF r = Zero
                   THEN s.height = d.height
                   ELSE /\ s.height = RDiv(d.width, r)
                        /\ RDiv(s.width, s.height) = r
                /\ cropper' = Some(RectOf(s)) ]_vars

\* C20, with the quotient taken where it exists: as above, and width / height = r
\* for every fixed ratio when the width of the widget's rectangle is not 0; a
\* rectangle of width 0 gets height 0.
C20_AspectChangeOfWidth ==
    [][ (AspectSome /\ cropper # None) =>
            LET d == Get(cropper)
                r == CASE selectedAspectRatio' = "original" ->
                              RDiv(Get(originalDimensions).width,
                                   Get(originalDimensions).height)
                       [] selectedAspectRatio' = "square" -> One
                       [] OTHER -> Zero
                s == activeCropSettings'
            IN  /\ s.x = d.x /\ s.y = d.y /\ s.width = d.width
                /\ s.aspectRatio = r
                /\ IF r = Zero
                   THEN s.height = d.height
                   ELSE /\ s.height = RDiv(d.width, r)
                        /\ IF d.width # Zero
                           THEN RDiv(s.width, s.height) = r
                           ELSE s.height = Zero
                /\ cropper' = Some(RectOf(s)) ]_vars

\* "original" selected for a dragged rectangle of another shape: the height was
\* recomputed from the width
C20_Witness ==
    /\ isOpen /\ cropper = Some(RectOf(activeCropSettings))
    /\ selectedAspectRatio = "original"
    /\ activeCropSettings.aspectRatio =
           RDiv(Get(originalDimensions).width, Get(originalDimensions).height)
    /\ activeCropSettings.aspectRatio # One
    /\ RDiv(activeCropSettings.width, activeCropSettings.height) =
           activeCropSettings.aspectRatio
    /\ RectOf(activeCropSettings) # RectOf(Get(initialCropSettings))
    /\ RectOf(activeCropSettings) \notin DragRects

====
